---- MODULE Spec2Model ----
(***************************************************************************)
(* EigenTrustSet (circuit/src/dynamic_sets/native.rs): the dynamic trust   *)
(* set, its membership operations, opinion filtering and convergence.      *)
(*                                                                         *)
(* Fr is a prime field.  The model keeps the field structure (addition,    *)
(* multiplication, inversion, reduction of u128 constants) over a small    *)
(* prime MODULUS instead of the 254-bit bn256 scalar modulus.              *)
(* An Opinion is modelled by its `scores` vector; `sig` and `message_hash` *)
(* are never read by EigenTrustSet.                                        *)
(***************************************************************************)
EXTENDS Integers, Sequences, FiniteSets, TLC

\* ---------------------------------------------------------------- sizes
\* const generics of EigenTrustSet; the set checked is
\* EigenTrustSet::<3, 10, 2437> (the tests use NUM_NEIGHBOURS = 123)
NUM_NEIGHBOURS == 3
NUM_ITERATIONS == 10
INITIAL_SCORE == 2437

\* order of the scalar field Fr (a prime)
MODULUS == 11

\* PublicKey::default(), the empty slot
NULL == 0
\* how many distinct keys the callers own (more than there are slots)
NUM_KEYS == 4
PublicKeys == 1..NUM_KEYS
Keys == PublicKeys \cup {NULL}
Slots == 1..NUM_NEIGHBOURS

\* ---------------------------------------------------------------- Fr
Fr == 0..(MODULUS - 1)
Fr_zero == 0
Fr_from_u128(x) == x % MODULUS
Fr_add(a, b) == (a + b) % MODULUS
Fr_mul(a, b) == (a * b) % MODULUS
\* Field::invert(): None (here -1) for zero
Fr_invert(x) == IF x = 0 THEN -1 ELSE CHOOSE y \in Fr : (x * y) % MODULUS = 1
\* x.invert().unwrap(): no value in Fr for zero
Fr_invert_unwrap(x) == Fr_invert(x)
\* x.invert().unwrap_or(Fr::zero())
Fr_invert_or_zero(x) == IF Fr_invert(x) = -1 THEN Fr_zero ELSE Fr_invert(x)

\* a Vec of NUM_NEIGHBOURS entries, built entry by entry
RECURSIVE vec_upto(_, _)
vec_upto(f, n) == IF n = 0 THEN <<>> ELSE Append(vec_upto(f, n - 1), f[n])
vec(f) == vec_upto(f, NUM_NEIGHBOURS)

\* a HashMap, built entry by entry
RECURSIVE map_of(_, _)
map_of(f, keys) ==
    IF keys = {} THEN <<>>
    ELSE LET k == CHOOSE x \in keys : TRUE
         IN  (k :> f[k]) @@ map_of(f, keys \ {k})

\* iter().fold(Fr::zero(), |acc, &(_, score)| acc + score) over (key, score) pairs
RECURSIVE fold_scores(_, _)
fold_scores(v, n) == IF n = 0 THEN Fr_zero ELSE Fr_add(fold_scores(v, n - 1), v[n][2])
score_sum(v) == fold_scores(v, Len(v))

\* iter().fold(Fr::zero(), |acc, &score| acc + score) over scores
RECURSIVE fold_fr(_, _)
fold_fr(v, n) == IF n = 0 THEN Fr_zero ELSE Fr_add(fold_fr(v, n - 1), v[n])
fr_sum(v) == fold_fr(v, Len(v))

\* ---------------------------------------------------------------- Opinion
\* Opinion::default().scores
Opinion_default == vec([j \in Slots |-> <<NULL, Fr_zero>>])

\* test helper sign_opinion: zips the keys and the scores
sign_opinion(pks, scores) == vec([j \in Slots |-> <<pks[j], scores[j]>>])

\* ---------------------------------------------------------------- state
\* set, ops: the fields of EigenTrustSet; call: the last call and its outcome;
\* file: the file of a CSVFileStorage; config: the client's ClientConfig;
\* config_json: the configuration last written to client_config.json
VARIABLES set, ops, call, file, config, config_json
vars == <<set, ops, call, file, config, config_json>>
\* the state of the client, which no operation of EigenTrustSet touches
client == <<file, config, config_json>>
\* the state of the trust set, which no operation of the client touches
trust_set == <<set, ops>>

\* self.set.iter().position(|&(x, _)| x == pk); 0 is None
position(s, pk) ==
    IF \E j \in Slots : s[j][1] = pk
    THEN CHOOSE j \in Slots : s[j][1] = pk /\ \A k \in Slots : s[k][1] = pk => j <= k
    ELSE 0

\* HashMap::insert / HashMap::remove
map_insert(m, k, v) == map_of([x \in (DOMAIN m) \cup {k} |-> IF x = k THEN v ELSE m[x]], (DOMAIN m) \cup {k})
map_remove(m, k) == map_of(m, (DOMAIN m) \ {k})
EmptyMap == <<>>

\* what the last call was and how it ended; line is the failed assert/unwrap
Ok(name, r) == [op |-> name, status |-> "ok", line |-> 0, ret |-> r]
Panic(name, l) == [op |-> name, status |-> "panic", line |-> l, ret |-> <<>>]

\* EigenTrustSet::new
\* a file that does not exist yet
NoFile == [exists |-> FALSE, rows |-> <<>>]

\* ClientConfig as the client starts with it (the values of the test);
\* as_address and domain, which are parsed and formatted, are texts: sequences
\* of characters
ConfigDefault ==
    [as_address |-> <<"t", "e", "s", "t">>,
     band_id |-> "38922764296632428858395574229367", band_th |-> "500",
     band_url |-> "http://localhost:3000",
     domain |-> <<"0", "x">> \o [i \in 1..40 |-> "0"],
     node_url |-> "http://localhost:8545"]

\* EigenTrustSet::new, CSVFileStorage::new, the client's configuration
Init ==
    /\ set = vec([j \in Slots |-> <<NULL, Fr_zero>>])
    /\ ops = EmptyMap
    /\ call = Ok("new", <<>>)
    /\ file = NoFile
    /\ config = ConfigDefault
    /\ config_json = ConfigDefault

\* ---------------------------------------------------------------- operations
\* add_member without the assert that pk is not yet in the set
add_member_unchecked(pk) ==
    LET first_available == position(set, NULL)
    IN  IF first_available = 0
        THEN /\ call' = Panic("add_member", 64)
             /\ UNCHANGED <<set, ops>>
        ELSE /\ set' = [set EXCEPT ![first_available] = <<pk, Fr_from_u128(INITIAL_SCORE)>>]
             /\ call' = Ok("add_member", <<>>)
             /\ UNCHANGED ops

\* add_member that takes the last empty slot instead of the first
add_member_last_available(pk) ==
    LET pos == position(set, pk)
        first_available == position(set, NULL)
        last_available == CHOOSE j \in Slots : set[j][1] = NULL /\ \A k \in Slots : set[k][1] = NULL => k <= j
    IN  IF pos # 0
        THEN /\ call' = Panic("add_member", 61)
             /\ UNCHANGED <<set, ops>>
        ELSE IF first_available = 0
        THEN /\ call' = Panic("add_member", 64)
             /\ UNCHANGED <<set, ops>>
        ELSE /\ set' = [set EXCEPT ![last_available] = <<pk, Fr_from_u128(INITIAL_SCORE)>>]
             /\ call' = Ok("add_member", <<>>)
             /\ UNCHANGED ops

\* add_member that pushes a new entry when no slot is empty
add_member_grows(pk) ==
    LET pos == position(set, pk)
        first_available == position(set, NULL)
    IN  IF pos # 0
        THEN /\ call' = Panic("add_member", 61)
             /\ UNCHANGED <<set, ops>>
        ELSE IF first_available = 0
        THEN /\ set' = Append(set, <<pk, Fr_from_u128(INITIAL_SCORE)>>)
             /\ call' = Ok("add_member", <<>>)
             /\ UNCHANGED ops
        ELSE /\ set' = [set EXCEPT ![first_available] = <<pk, Fr_from_u128(INITIAL_SCORE)>>]
             /\ call' = Ok("add_member", <<>>)
             /\ UNCHANGED ops

add_member(pk) ==
    LET pos == position(set, pk)
        first_available == position(set, NULL)
    IN  IF pos # 0
        THEN /\ call' = Panic("add_member", 61)
             /\ UNCHANGED <<set, ops>>
        ELSE IF first_available = 0
        THEN /\ call' = Panic("add_member", 64)
             /\ UNCHANGED <<set, ops>>
        ELSE /\ set' = [set EXCEPT ![first_available] = <<pk, Fr_from_u128(INITIAL_SCORE)>>]
             /\ call' = Ok("add_member", <<>>)
             /\ UNCHANGED ops

\* remove_member that empties the slot's key but keeps its score
remove_member_keeps_score(pk) ==
    LET pos == position(set, pk)
    IN  IF pos = 0
        THEN /\ call' = Panic("remove_member", 75)
             /\ UNCHANGED <<set, ops>>
        ELSE /\ set' = [set EXCEPT ![pos] = <<NULL, set[pos][2]>>]
             /\ ops' = map_remove(ops, pk)
             /\ call' = Ok("remove_member", <<pk \in DOMAIN ops>>)

\* remove_member that leaves the opinion of pk in self.ops
remove_member_keeps_op(pk) ==
    LET pos == position(set, pk)
    IN  IF pos = 0
        THEN /\ call' = Panic("remove_member", 75)
             /\ UNCHANGED <<set, ops>>
        ELSE /\ set' = [set EXCEPT ![pos] = <<NULL, Fr_zero>>]
             /\ ops' = ops
             /\ call' = Ok("remove_member", <<pk \in DOMAIN ops>>)

\* ret: whether HashMap::remove found (and removed) an entry for pk
remove_member(pk) ==
    LET pos == position(set, pk)
    IN  IF pos = 0
        THEN /\ call' = Panic("remove_member", 75)
             /\ UNCHANGED <<set, ops>>
        ELSE /\ set' = [set EXCEPT ![pos] = <<NULL, Fr_zero>>]
             /\ ops' = map_remove(ops, pk)
             /\ call' = Ok("remove_member", <<pk \in DOMAIN ops>>)

\* update_op that keeps the opinion already stored for `from`
update_op_keeps_first(from, op) ==
    LET pos_from == position(set, from)
    IN  IF pos_from = 0
        THEN /\ call' = Panic("update_op", 86)
             /\ UNCHANGED <<set, ops>>
        ELSE /\ ops' = IF from \in DOMAIN ops THEN ops ELSE map_insert(ops, from, op)
             /\ call' = Ok("update_op", <<from \in DOMAIN ops>>)
             /\ UNCHANGED set

\* update_op that inserts before it checks that `from` is a member
update_op_insert_first(from, op) ==
    LET pos_from == position(set, from)
    IN  /\ ops' = map_insert(ops, from, op)
        /\ call' = IF pos_from = 0 THEN Panic("update_op", 86)
                   ELSE Ok("update_op", <<from \in DOMAIN ops>>)
        /\ UNCHANGED set

\* ret: whether HashMap::insert found (and replaced) an entry for `from`
update_op(from, op) ==
    LET pos_from == position(set, from)
    IN  IF pos_from = 0
        THEN /\ call' = Panic("update_op", 86)
             /\ UNCHANGED <<set, ops>>
        ELSE /\ ops' = map_insert(ops, from, op)
             /\ call' = Ok("update_op", <<from \in DOMAIN ops>>)
             /\ UNCHANGED set

\* ---------------------------------------------------------------- filter_peers_ops
\* self.ops.get(&pk_i).unwrap_or(&Opinion::default()).clone()
stored_op(o, pk_i) == IF pk_i \in DOMAIN o THEN o[pk_i] ELSE Opinion_default

\* filter_correct that leaves the submitted key in place
filter_correct_keeps_key(s, ops_i, pk_i) ==
    vec([j \in Slots |->
        LET set_pk_j == s[j][1]
            op_pk_j == ops_i[j][1]
            is_diff_pk_j == set_pk_j # op_pk_j
            is_pk_j_null == set_pk_j = NULL
            is_pk_i == set_pk_j = pk_i
        IN  << op_pk_j,
               IF is_diff_pk_j \/ is_pk_j_null \/ is_pk_i THEN Fr_zero ELSE ops_i[j][2] >>])

\* filter_correct without condition 3 (set_pk_j == pk_i)
filter_correct_keeps_self(s, ops_i, pk_i) ==
    vec([j \in Slots |->
        LET set_pk_j == s[j][1]
            op_pk_j == ops_i[j][1]
            is_diff_pk_j == set_pk_j # op_pk_j
            is_pk_j_null == set_pk_j = NULL
        IN  << IF is_diff_pk_j THEN set_pk_j ELSE op_pk_j,
               IF is_diff_pk_j \/ is_pk_j_null THEN Fr_zero ELSE ops_i[j][2] >>])

\* filter_correct without condition 1 (set_pk_j != op_pk_j) for the score
filter_correct_keeps_score(s, ops_i, pk_i) ==
    vec([j \in Slots |->
        LET set_pk_j == s[j][1]
            op_pk_j == ops_i[j][1]
            is_diff_pk_j == set_pk_j # op_pk_j
            is_pk_j_null == set_pk_j = NULL
            is_pk_i == set_pk_j = pk_i
        IN  << IF is_diff_pk_j THEN set_pk_j ELSE op_pk_j,
               IF is_pk_j_null \/ is_pk_i THEN Fr_zero ELSE ops_i[j][2] >>])

\* filter_correct without condition 2 (set_pk_j == 0) for the score
filter_correct_keeps_null(s, ops_i, pk_i) ==
    vec([j \in Slots |->
        LET set_pk_j == s[j][1]
            op_pk_j == ops_i[j][1]
            is_diff_pk_j == set_pk_j # op_pk_j
            is_pk_i == set_pk_j = pk_i
        IN  << IF is_diff_pk_j THEN set_pk_j ELSE op_pk_j,
               IF is_diff_pk_j \/ is_pk_i THEN Fr_zero ELSE ops_i[j][2] >>])

\* the first inner loop: nullify the score, correct the key
filter_correct(s, ops_i, pk_i) ==
    vec([j \in Slots |->
        LET set_pk_j == s[j][1]
            op_pk_j == ops_i[j][1]
            is_diff_pk_j == set_pk_j # op_pk_j
            is_pk_j_null == set_pk_j = NULL
            is_pk_i == set_pk_j = pk_i
        IN  << IF is_diff_pk_j THEN set_pk_j ELSE op_pk_j,
               IF is_diff_pk_j \/ is_pk_j_null \/ is_pk_i THEN Fr_zero ELSE ops_i[j][2] >>])

\* filter_distribute that never distributes
filter_distribute_never(ops_i, pk_i) == ops_i

\* filter_distribute without condition 1 (pk_j != pk_i)
filter_distribute_to_self(ops_i, pk_i) ==
    LET op_score_sum == score_sum(ops_i)
    IN  IF op_score_sum = Fr_zero
        THEN vec([j \in Slots |->
                LET pk_j == ops_i[j][1]
                    is_not_null == pk_j # NULL
                IN  IF is_not_null THEN <<pk_j, Fr_from_u128(1)>> ELSE ops_i[j]])
        ELSE ops_i

\* filter_distribute that gives 1 only where the score is zero
filter_distribute_keeps_nonzero(ops_i, pk_i) ==
    LET op_score_sum == score_sum(ops_i)
    IN  IF op_score_sum = Fr_zero
        THEN vec([j \in Slots |->
                LET pk_j == ops_i[j][1]
                    is_diff_pk == pk_j # pk_i
                    is_not_null == pk_j # NULL
                IN  IF is_diff_pk /\ is_not_null /\ ops_i[j][2] = Fr_zero
                    THEN <<pk_j, Fr_from_u128(1)>> ELSE ops_i[j]])
        ELSE ops_i

\* the second inner loop: distribute the scores when they sum to zero
filter_distribute(ops_i, pk_i) ==
    LET op_score_sum == score_sum(ops_i)
    IN  IF op_score_sum = Fr_zero
        THEN vec([j \in Slots |->
                LET pk_j == ops_i[j][1]
                    is_diff_pk == pk_j # pk_i
                    is_not_null == pk_j # NULL
                IN  IF is_diff_pk /\ is_not_null THEN <<pk_j, Fr_from_u128(1)>> ELSE ops_i[j]])
        ELSE ops_i

\* one turn of the outer loop, for member pk_i
filter_op(s, o, pk_i) == filter_distribute(filter_correct(s, stored_op(o, pk_i), pk_i), pk_i)

\* the keys of the non-empty slots
member_keys(s) == {s[i][1] : i \in Slots} \ {NULL}

\* filter_peers_ops without the `continue` for empty slots
filter_peers_ops_all_slots(s, o) ==
    map_of([pk_i \in {s[i][1] : i \in Slots} |-> filter_op(s, o, pk_i)], {s[i][1] : i \in Slots})

filter_peers_ops(s, o) ==
    map_of([pk_i \in member_keys(s) |-> filter_op(s, o, pk_i)], member_keys(s))

\* ---------------------------------------------------------------- converge
\* "Normalize the opinion scores": one member's opinion
normalize_op(ops_i) ==
    LET op_score_sum == score_sum(ops_i)
        inverted_sum == Fr_invert_or_zero(op_score_sum)
    IN  vec([j \in Slots |-> <<ops_i[j][1], Fr_mul(ops_i[j][2], inverted_sum)>>])

\* filtered_ops after the normalization loop
normalized_ops(s, o) ==
    LET filtered_ops == filter_peers_ops(s, o)
    IN  map_of([pk \in DOMAIN filtered_ops |-> normalize_op(filtered_ops[pk])], DOMAIN filtered_ops)

valid_peers(s) == Cardinality({j \in Slots : s[j][1] # NULL})

\* assert!(valid_peers >= 2, "Insufficient peers for calculation!")
has_quorum_gt(s) == valid_peers(s) > 2
has_quorum(s) == valid_peers(s) >= 2

\* sop[i][j] of one iteration
sop(s, f, sv, i, j) ==
    IF s[i][1] = NULL THEN Fr_zero ELSE Fr_mul(f[s[i][1]][j][2], sv[i])

\* new_score of slot i: sop[0][i] + ... + sop[n-1][i]
RECURSIVE new_score(_, _, _, _, _)
new_score(s, f, sv, i, n) ==
    IF n = 0 THEN Fr_zero ELSE Fr_add(new_score(s, f, sv, i, n - 1), sop(s, f, sv, n, i))

\* one pass of the body of `for _ in 0..NUM_ITERATIONS`
iteration(s, f, sv) == vec([i \in Slots |-> new_score(s, f, sv, i, NUM_NEIGHBOURS)])

\* the loop with an early exit once a pass leaves s as it was
RECURSIVE iterate_until_stable(_, _, _, _)
iterate_until_stable(s, f, hist, n) ==
    IF n = 0 THEN hist
    ELSE IF Len(hist) > 1 /\ hist[Len(hist)] = hist[Len(hist) - 1] THEN hist
    ELSE iterate_until_stable(s, f, Append(hist, iteration(s, f, hist[Len(hist)])), n - 1)

\* the values s takes: hist[1] before the loop, then one entry per pass
RECURSIVE iterate(_, _, _, _)
iterate(s, f, hist, n) ==
    IF n = 0 THEN hist
    ELSE iterate(s, f, Append(hist, iteration(s, f, hist[Len(hist)])), n - 1)

\* s at the end of the loop
final_scores(s, o) ==
    LET hist == iterate(s, normalized_ops(s, o), <<vec([i \in Slots |-> s[i][2]])>>, NUM_ITERATIONS)
    IN  hist[Len(hist)]

\* the whole call: its outcome
converge_call(s, o) ==
    IF ~has_quorum(s)
    THEN Panic("converge", 114)
    ELSE LET sv == final_scores(s, o)
             sum_initial == score_sum(s)
             sum_final == fr_sum(sv)
         IN  IF sum_initial # sum_final
             THEN Panic("converge", 157)
             ELSE Ok("converge", sv)

\* converge that filters and normalizes the stored opinions in place
converge_in_place ==
    /\ call' = converge_call(set, ops)
    /\ ops' = normalized_ops(set, ops) @@ ops
    /\ UNCHANGED set

\* converge that stores the scores it returns in the set
converge_writes_back ==
    /\ call' = converge_call(set, ops)
    /\ set' = IF converge_call(set, ops).status = "ok"
              THEN vec([i \in Slots |-> <<set[i][1], converge_call(set, ops).ret[i]>>])
              ELSE set
    /\ UNCHANGED ops

converge ==
    /\ call' = converge_call(set, ops)
    /\ UNCHANGED <<set, ops>>

\* ---------------------------------------------------------------- inputs
\* key vectors and score vectors the callers sign
keys_in_order == [j \in Slots |-> j]
keys_stale == [j \in Slots |-> IF j = 1 THEN NUM_NEIGHBOURS + 1
                               ELSE IF j = NUM_NEIGHBOURS THEN NULL ELSE j]
scores_ramp == [j \in Slots |-> Fr_from_u128(2 ^ (j - 1))]
scores_cancel == [j \in Slots |-> IF j = 2 THEN Fr_from_u128(1)
                                  ELSE IF j = NUM_NEIGHBOURS THEN Fr_from_u128(MODULUS - 1)
                                  ELSE Fr_zero]
Opinions ==
    { sign_opinion(keys_in_order, scores_ramp),
      sign_opinion(keys_in_order, scores_cancel),
      sign_opinion(keys_stale, scores_ramp) }

Next ==
    \/ \E pk \in Keys : add_member(pk) /\ UNCHANGED client
    \/ \E pk \in Keys : remove_member(pk) /\ UNCHANGED client
    \/ \E from \in Keys, op \in Opinions : update_op(from, op) /\ UNCHANGED client
    \/ converge /\ UNCHANGED client

Spec == Init /\ [][Next]_vars

\* ---------------------------------------------------------------- arbitrary opinions
\* filter_peers_ops and converge applied to a set in which one member has
\* stored an arbitrary opinion of NUM_NEIGHBOURS entries: any key at any
\* position, scores that are zero, cancel or do not cancel.
\* The sets are the ones add_member/remove_member reach with slot j holding
\* key j or nothing (any other set is one of these with the keys renamed).
ScoreSamples == {Fr_zero, Fr_from_u128(1), Fr_from_u128(MODULUS - 1)}
ArbOpinions == {sign_opinion(pks, scores) : pks \in [Slots -> Keys], scores \in [Slots -> ScoreSamples]}
ArbSets ==
    {vec([j \in Slots |-> IF j \in occ THEN <<j, Fr_from_u128(INITIAL_SCORE)>> ELSE <<NULL, Fr_zero>>]) :
        occ \in SUBSET Slots}

InitArb ==
    /\ file = NoFile
    /\ config = ConfigDefault
    /\ config_json = ConfigDefault
    /\ set \in ArbSets
    /\ \/ ops = EmptyMap
       \/ \E from \in member_keys(set) : \E op \in ArbOpinions : ops = map_insert(EmptyMap, from, op)
    /\ call = Ok("new", <<>>)

NextArb == converge /\ UNCHANGED client

SpecArb == InitArb /\ [][NextArb]_vars

TypeOK ==
    /\ set \in [Slots -> Keys \X Fr]
    /\ DOMAIN ops \subseteq Keys
    /\ \A k \in DOMAIN ops : ops[k] \in [Slots -> Keys \X Fr]

\* ---------------------------------------------------------------- CSVFileStorage
\* client/src/storage.rs, for the Record of its test: a peer address and a
\* u32 score.  The file is a sequence of rows, a row a sequence of fields; the
\* text of a number is its sequence of decimal digits.
MaxRecords == 2
Addresses == {"0x70997970c51812dc3a010c7d01b50e0d17dc7666", "0x3c44cdddb6a900fa2b585dd299e03d12fa4293bc"}
ScoreValues == {0, 7, 10, 1000}
Record == [peer_address : Addresses, score : ScoreValues]
RECURSIVE DataUpTo(_)
DataUpTo(n) == IF n = 0 THEN {<<>>} ELSE DataUpTo(n - 1) \cup [1..n -> Record]
Data == DataUpTo(MaxRecords)

\* u32 Display / FromStr
RECURSIVE u32_to_string(_)
u32_to_string(n) == IF n < 10 THEN <<n>> ELSE Append(u32_to_string(n \div 10), n % 10)
RECURSIVE u32_parse_upto(_, _)
u32_parse_upto(t, n) == IF n = 0 THEN 0 ELSE 10 * u32_parse_upto(t, n - 1) + t[n]
u32_parse(t) == u32_parse_upto(t, Len(t))

\* the header row the writer derives from the struct's field names
csv_header == <<"peer_address", "score">>
\* writer.serialize(record) / one item of reader.deserialize()
csv_serialize(r) == <<r.peer_address, u32_to_string(r.score)>>
csv_deserialize(row) == [peer_address |-> row[1], score |-> u32_parse(row[2])]

RECURSIVE csv_rows(_, _)
csv_rows(data, n) == IF n = 0 THEN <<>> ELSE Append(csv_rows(data, n - 1), csv_serialize(data[n]))
RECURSIVE csv_records(_, _)
csv_records(rows, n) == IF n = 0 THEN <<>> ELSE Append(csv_records(rows, n - 1), csv_deserialize(rows[n]))

\* Result::Err of a call
Err(name, e) == [op |-> name, status |-> "err", line |-> 0, ret |-> <<e>>]

\* what save writes: the header before the first record, nothing for no record
csv_content(data) ==
    IF Len(data) = 0 THEN <<>> ELSE <<csv_header>> \o csv_rows(data, Len(data))

\* save that opens the file for appending instead of truncating it
save_appends(data) ==
    /\ file' = [exists |-> TRUE, rows |-> file.rows \o csv_content(data)]
    /\ call' = Ok("save", <<file.exists, data>>)

\* CSVFileStorage::save; ret: whether from_path found (and truncated) a file,
\* and the data argument of the call
save(data) ==
    /\ file' = [exists |-> TRUE, rows |-> csv_content(data)]
    /\ call' = Ok("save", <<file.exists, data>>)

\* CSVFileStorage::load: its outcome on the file f
load_call(f) ==
    IF ~f.exists THEN Err("load", "IOError")
    ELSE IF Len(f.rows) = 0 THEN Ok("load", <<>>)
    ELSE Ok("load", csv_records(Tail(f.rows), Len(f.rows) - 1))

load ==
    /\ call' = load_call(file)
    /\ UNCHANGED file

NextStorage ==
    \/ \E data \in Data : save(data) /\ UNCHANGED <<trust_set, config, config_json>>
    \/ load /\ UNCHANGED <<trust_set, config, config_json>>

SpecStorage == Init /\ [][NextStorage]_vars

\* ---------------------------------------------------------------- handle_update
\* client/src/cli.rs.  Option<String>: <<>> is None, <<v>> is Some(v).
None == <<>>
Some(v) == <<v>>

\* H160 (ethers Address): FromStr takes 40 hex digits after an optional "0x";
\* Display prints "0x", the first two bytes, an ellipsis and the last two
H160_BYTES == 20
HexLower == <<"0", "1", "2", "3", "4", "5", "6", "7", "8", "9", "a", "b", "c", "d", "e", "f">>
HexUpper == <<"0", "1", "2", "3", "4", "5", "6", "7", "8", "9", "A", "B", "C", "D", "E", "F">>
HexDigits == {HexLower[i] : i \in 1..16} \cup {HexUpper[i] : i \in 1..16}
is_hex(c) == c \in HexDigits
hex_value(c) == (CHOOSE i \in 1..16 : HexLower[i] = c \/ HexUpper[i] = c) - 1
hex_byte(b) == <<HexLower[(b \div 16) + 1], HexLower[(b % 16) + 1]>>
Ellipsis == "U+2026"
strip_0x(t) == IF Len(t) >= 2 /\ t[1] = "0" /\ t[2] = "x" THEN SubSeq(t, 3, Len(t)) ELSE t
H160_from_str(t) ==
    LET h == strip_0x(t)
    IN  IF Len(h) = 2 * H160_BYTES /\ \A i \in 1..Len(h) : is_hex(h[i])
        THEN [ok |-> TRUE,
              bytes |-> [i \in 1..H160_BYTES |-> 16 * hex_value(h[2 * i - 1]) + hex_value(h[2 * i])]]
        ELSE [ok |-> FALSE, bytes |-> <<>>]
H160_to_string(b) ==
    <<"0", "x">> \o hex_byte(b[1]) \o hex_byte(b[2]) \o <<Ellipsis>>
        \o hex_byte(b[H160_BYTES - 1]) \o hex_byte(b[H160_BYTES])

\* band_th.parse::<u32>() and Http::from_str(..) on the texts the user types
U32Texts == {"500", "7"}
UrlTexts == {"http://localhost:3000", "http://localhost:8545", "https://api.bandada.pse.dev"}
parses_u32(t) == t \in U32Texts
parses_url(t) == t \in UrlTexts

\* what the user types for --as-address and --domain: addresses with and
\* without the prefix, and a text that is no address
AddressTexts ==
    { <<"0", "x">> \o <<"5", "f", "b", "d", "b", "2", "3", "1", "5", "6", "7", "8", "a", "f", "e", "c", "b", "3", "6", "7", "f", "0", "3", "2", "d", "9", "3", "f", "6", "4", "2", "f", "6", "4", "1", "8", "0", "a", "a", "3">> }
DomainTexts ==
    { <<"7", "0", "9", "9", "7", "9", "7", "0", "C", "5", "1", "8", "1", "2", "d", "c", "3", "a", "0", "1", "0", "c", "7", "d", "0", "1", "b", "5", "0", "e", "0", "d", "1", "7", "d", "c", "7", "6", "6", "6">> }
NoAddress == <<"t", "e", "s", "t">>
\* the UpdateData of a call
UpdateDatas ==
    [as_address : {None, Some(NoAddress)} \cup {Some(t) : t \in AddressTexts},
     band_id : {None, Some("7")},
     band_th : {None, Some("7"), Some("many")},
     band_url : {None, Some("https://api.bandada.pse.dev")},
     domain : {None, Some(NoAddress)} \cup {Some(t) : t \in DomainTexts},
     node_url : {None, Some("http://localhost:3000"), Some("node")}]

\* the run of handle_update up to a `?`: the configuration as written so far
\* and whether an error has been returned
Running(c) == [ok |-> TRUE, config |-> c, err |-> ""]
Failed(r, e) == [r EXCEPT !.ok = FALSE, !.err = e]

set_as_address(r, v, e) ==
    IF ~r.ok \/ v = None THEN r
    ELSE LET address == H160_from_str(v[1])
         IN  IF ~address.ok THEN Failed(r, e)
             ELSE [r EXCEPT !.config.as_address = H160_to_string(address.bytes)]
set_band_id(r, v) ==
    IF ~r.ok \/ v = None THEN r ELSE [r EXCEPT !.config.band_id = v[1]]
set_band_th(r, v) ==
    IF ~r.ok \/ v = None THEN r
    ELSE IF ~parses_u32(v[1]) THEN Failed(r, "Failed to parse group threshold.")
    ELSE [r EXCEPT !.config.band_th = v[1]]
set_band_url(r, v) ==
    IF ~r.ok \/ v = None THEN r
    ELSE IF ~parses_url(v[1]) THEN Failed(r, "Failed to parse bandada API base url.")
    ELSE [r EXCEPT !.config.band_url = v[1]]
set_node_url(r, v) ==
    IF ~r.ok \/ v = None THEN r
    ELSE IF ~parses_url(v[1]) THEN Failed(r, "Failed to parse node url.")
    ELSE [r EXCEPT !.config.node_url = v[1]]

\* the six `if let Some(..)` blocks in their order; the block for
\* data.domain assigns config.as_address
handle_update_run(c, data) ==
    set_node_url(
        set_as_address(
            set_band_url(
                set_band_th(
                    set_band_id(
                        set_as_address(Running(c), data.as_address, "Failed to parse address."),
                        data.band_id),
                    data.band_th),
                data.band_url),
            data.domain, "Failed to parse domain"),
        data.node_url)

\* handle_update: config is the caller's &mut ClientConfig, written up to the
\* first error; write_json_data runs when no block has returned an error
handle_update(data) ==
    LET r == handle_update_run(config, data)
    IN  /\ config' = r.config
        /\ config_json' = IF r.ok THEN r.config ELSE config_json
        /\ call' = IF r.ok THEN Ok("handle_update", <<>>) ELSE Err("handle_update", r.err)

NextCli ==
    \E data \in UpdateDatas : handle_update(data) /\ UNCHANGED <<trust_set, file>>

SpecCli == Init /\ [][NextCli]_vars

\* ---------------------------------------------------------------- properties
members_with_op(s, o) == member_keys(s) \cap DOMAIN o

\* C1 -- Conservation: whenever converge has run on a set with at least two
\* non-NULL members it returned (the assertion of line 157 did not fail) and the
\* returned scores add up, in Fr, to the scores stored in the set.
C1_Conservation ==
    (call.op = "converge" /\ valid_peers(set) >= 2) =>
        /\ call.status = "ok"
        /\ Len(call.ret) = NUM_NEIGHBOURS
        /\ fr_sum(call.ret) = score_sum(set)

\* converge has returned for a full set in which every member has an opinion,
\* and the scores it returned are not the stored ones
C1_Witness ==
    /\ call.op = "converge" /\ call.status = "ok"
    /\ valid_peers(set) = NUM_NEIGHBOURS
    /\ members_with_op(set, ops) = member_keys(set)
    /\ \E i \in Slots : call.ret[i] # set[i][2]

\* C2 -- Minimum quorum: converge panics when the set holds fewer than two
\* non-NULL members and returns when it holds exactly two, whatever opinions
\* the two have submitted.
C2_MinimumQuorum ==
    call.op = "converge" =>
        /\ valid_peers(set) < 2 => call.status = "panic"
        /\ valid_peers(set) = 2 => call.status = "ok"

\* converge has returned for two members of which exactly one has an opinion
C2_Witness ==
    /\ call.op = "converge" /\ call.status = "ok"
    /\ valid_peers(set) = 2
    /\ Cardinality(members_with_op(set, ops)) = 1

\* converge has panicked for a single member
C2_WitnessOne ==
    /\ call.op = "converge" /\ call.status = "panic"
    /\ valid_peers(set) = 1

\* C3 -- No duplicate membership: add_member(pk) for a pk that occupies a slot
\* panics and changes nothing, and a member stays in the set over every step
\* that is not its remove_member, so a second add_member(pk) panics as well.
C3_NoDuplicateMembership ==
    [][\A pk \in PublicKeys :
          /\ (pk \in member_keys(set) /\ add_member(pk)) =>
                (call'.status = "panic" /\ set' = set /\ ops' = ops)
          /\ (pk \in member_keys(set) /\ pk \notin member_keys(set')) => remove_member(pk)
      ]_vars

\* add_member has panicked on the duplicate check while no slot was empty, so
\* the key it was given is a member
C3_Witness ==
    /\ call.op = "add_member" /\ call.status = "panic" /\ call.line = 61
    /\ valid_peers(set) = NUM_NEIGHBOURS

\* C4 -- Self-rating exclusion: in the opinion filter_peers_ops produces for a
\* member, the score at the member's own slot is zero.
C4_SelfRatingExclusion ==
    LET filtered_ops == filter_peers_ops(set, ops)
    IN  \A i \in Slots :
            set[i][1] # NULL => filtered_ops[set[i][1]][i] = <<set[i][1], Fr_zero>>

\* a member has stored an opinion that gives its own key, at its own slot, a
\* non-zero score
C4_Witness ==
    \E i \in Slots :
        /\ set[i][1] \in members_with_op(set, ops)
        /\ ops[set[i][1]][i][1] = set[i][1]
        /\ ops[set[i][1]][i][2] # Fr_zero

\* C5 -- Bootstrap fallback: a member without a stored opinion, in a set of at
\* least two members, ends up after filtering and normalization with weight
\* 1/(number of other members), which is not zero, on every other member's
\* slot and with zero on its own slot and on every empty slot.
C5_BootstrapFallback ==
    LET normalized == normalized_ops(set, ops)
    IN  \A i \in Slots :
            (set[i][1] # NULL /\ set[i][1] \notin DOMAIN ops /\ valid_peers(set) >= 2) =>
                LET w == Fr_invert(Fr_from_u128(valid_peers(set) - 1))
                    row == normalized[set[i][1]]
                IN  /\ w \in Fr \ {Fr_zero}
                    /\ \A j \in Slots :
                          row[j][2] = IF set[j][1] # NULL /\ j # i THEN w ELSE Fr_zero

\* converge has returned for a full set in which exactly one member has no
\* opinion
C5_Witness ==
    /\ valid_peers(set) = NUM_NEIGHBOURS
    /\ Cardinality(member_keys(set) \ DOMAIN ops) = 1
    /\ call.op = "converge" /\ call.status = "ok"

\* the positions of pk's stored opinion whose key is not the key of the slot
misaligned(s, o, pk) == {j \in Slots : o[pk][j][1] # s[j][1]}

\* C6 as stated -- Alignment repair: at every position where a member's stored
\* opinion names another key than the slot holds, the opinion filter_peers_ops
\* returns has the slot's key and score zero.
C6_AsStated ==
    \A pk \in members_with_op(set, ops) : \A j \in misaligned(set, ops, pk) :
        filter_peers_ops(set, ops)[pk][j] = <<set[j][1], Fr_zero>>

\* C6 -- Alignment repair: at every such position the returned opinion has the
\* slot's key; the correction pass sets the score to zero, and the returned
\* score is zero unless the corrected scores sum to zero, in which case the
\* distribution sets it to 1 when the slot holds another member.
C6_AlignmentRepair ==
    LET filtered_ops == filter_peers_ops(set, ops)
    IN
    \A pk \in members_with_op(set, ops) : \A j \in misaligned(set, ops, pk) :
        LET corrected == filter_correct(set, ops[pk], pk)
            filtered == filtered_ops[pk]
        IN  /\ filtered[j][1] = set[j][1]
            /\ corrected[j] = <<set[j][1], Fr_zero>>
            /\ score_sum(corrected) # Fr_zero => filtered[j][2] = Fr_zero
            /\ score_sum(corrected) = Fr_zero =>
                  filtered[j][2] = IF set[j][1] \notin {NULL, pk} THEN Fr_from_u128(1) ELSE Fr_zero

\* a member's stored opinion gives a non-zero score to a key that is not the
\* member now in that slot, and its corrected scores do not sum to zero
C6_Witness ==
    \E pk \in members_with_op(set, ops) : \E j \in misaligned(set, ops, pk) :
        /\ ops[pk][j][2] # Fr_zero
        /\ ops[pk][j][1] # NULL
        /\ set[j][1] \notin {NULL, pk}
        /\ score_sum(filter_correct(set, ops[pk], pk)) # Fr_zero

\* the churn scenario: the set is full and every member has stored an opinion
\* that names every other member at its slot with a non-zero score
full_quorum(s, o) ==
    /\ valid_peers(s) = NUM_NEIGHBOURS
    /\ member_keys(s) \subseteq DOMAIN o
    /\ \A i \in Slots : \A j \in Slots \ {i} :
          o[s[i][1]][j][1] = s[j][1] /\ o[s[i][1]][j][2] # Fr_zero

\* the stored opinions with the entry at position b of every member's opinion
\* replaced by x
with_rating(s, o, b, x) ==
    [k \in DOMAIN o |-> IF k \in member_keys(s) THEN [o[k] EXCEPT ![b] = x] ELSE o[k]]

\* what holds of the set (s, o) left by removing the member pk of slot b:
\* converge returns, gives slot b score zero, conserves the stored sum, and
\* returns the same whatever the members rated slot b and whatever pk had rated
after_quit(s, o, pk, b) ==
    LET c == converge_call(s, o)
    IN  /\ c.status = "ok"
        /\ c.ret[b] = Fr_zero
        /\ fr_sum(c.ret) = score_sum(s)
        /\ pk \notin DOMAIN o
        /\ \A x \in Keys \X Fr : converge_call(s, with_rating(s, o, b, x)) = c
        /\ \A op \in Opinions : converge_call(s, map_insert(o, pk, op)) = c

C9_AsStated ==
    [][\A pk \in Keys :
          (remove_member(pk) /\ pk \notin member_keys(set)) => call'.status = "panic"
      ]_vars

\* C10 as stated -- update_op(from, op) panics for every key that is not a
\* member of the set, the NULL key included, and stores no opinion.
C10_AsStated ==
    [][\A from \in Keys : \A op \in Opinions :
          (update_op(from, op) /\ from \notin member_keys(set)) =>
              (call'.status = "panic" /\ ops' = ops)
      ]_vars

\* C11 -- Latest opinion wins: a successful update_op(from, op) by a member
\* leaves exactly the opinion op stored for from, touches no other entry, and
\* leaves the set in the state it would be in had from stored any other
\* opinion, or none, before this one; converge then returns what it returns
\* when from never stored an earlier opinion (compared where converge had
\* just returned: every set and every stored opinions occur there).
C11_LatestOpinionWins ==
    [][(call'.op = "update_op" /\ call'.status = "ok") =>
          \A from \in member_keys(set) : \A op \in Opinions :
              update_op(from, op) =>
                  /\ DOMAIN ops' = DOMAIN ops \cup {from}
                  /\ ops'[from] = op
                  /\ \A k \in DOMAIN ops \ {from} : ops'[k] = ops[k]
                  /\ \A earlier \in Opinions :
                        ops' = map_insert(map_insert(ops, from, earlier), from, op)
                  /\ (call.op = "converge" /\ call.status = "ok") =>
                        converge_call(set', ops') =
                            converge_call(set, map_insert(map_remove(ops, from), from, op))
      ]_vars

\* update_op has replaced an opinion that was stored before, in a set that
\* passes the quorum check
C11_Witness ==
    /\ call.op = "update_op" /\ call.status = "ok"
    /\ call.ret = <<TRUE>>
    /\ valid_peers(set) >= 2

\* the slots that hold NULL
free_slots(s) == {j \in Slots : s[j][1] = NULL}

\* C12 -- First free slot wins: a successful add_member(pk) writes
\* (pk, INITIAL_SCORE) into the lowest slot that held NULL before the call and
\* leaves every other slot and the stored opinions as they were.
C12_FirstFreeSlotWins ==
    [][(call'.op = "add_member" /\ call'.status = "ok") =>
          \A pk \in Keys :
              add_member(pk) =>
                  /\ free_slots(set) # {}
                  /\ \E f \in free_slots(set) :
                        /\ \A k \in free_slots(set) : f <= k
                        /\ set'[f] = <<pk, Fr_from_u128(INITIAL_SCORE)>>
                        /\ \A j \in Slots \ {f} : set'[j] = set[j]
                  /\ ops' = ops
      ]_vars

\* add_member has just filled a slot and a higher slot is still empty below
\* an occupied one: the slot it filled had been freed by a removal and lies
\* below an occupied slot; opinions are stored
C12_Witness ==
    /\ call.op = "add_member" /\ call.status = "ok"
    /\ \E i \in Slots : \E j \in Slots :
          i < j /\ set[i][1] = NULL /\ set[j][1] # NULL
    /\ DOMAIN ops # {}

\* the number of entries of the set with a non-NULL key
occupied(s) == Cardinality({j \in DOMAIN s : s[j][1] # NULL})

\* C13 -- Capacity: add_member of a key that is not a member panics, on the
\* unwrap of line 64, when no slot holds NULL, and changes nothing; the set
\* never holds more than NUM_NEIGHBOURS non-NULL members.
C13_Capacity ==
    /\ [](Len(set) = NUM_NEIGHBOURS /\ occupied(set) <= NUM_NEIGHBOURS)
    /\ [][\A pk \in Keys :
            (add_member(pk) /\ pk \notin member_keys(set) /\ free_slots(set) = {}) =>
                (call' = Panic("add_member", 64) /\ set' = set /\ ops' = ops)
        ]_vars

\* add_member has panicked for want of an empty slot
C13_Witness ==
    /\ call = Panic("add_member", 64)
    /\ occupied(set) = NUM_NEIGHBOURS

\* C14 -- a successful remove_member(pk) resets the slot of pk to (NULL, 0),
\* deletes the opinion stored for pk, and leaves every other slot and every
\* other stored opinion as it was; a key that is added has no stored opinion,
\* and gets one only by its own update_op.
C14_RemoveMemberFrame ==
    [][/\ (call'.op = "remove_member" /\ call'.status = "ok") =>
              \A pk \in Keys :
                  remove_member(pk) =>
                      /\ set'[position(set, pk)] = <<NULL, Fr_zero>>
                      /\ \A j \in Slots \ {position(set, pk)} : set'[j] = set[j]
                      /\ DOMAIN ops' = DOMAIN ops \ {pk}
                      /\ \A k \in DOMAIN ops \ {pk} : ops'[k] = ops[k]
       /\ (call'.op = "add_member" /\ call'.status = "ok") =>
              \A pk \in PublicKeys : add_member(pk) => pk \notin DOMAIN ops'
       /\ \A pk \in PublicKeys :
              (pk \notin DOMAIN ops /\ pk \in DOMAIN ops') =>
                  \E op \in Opinions : update_op(pk, op)
      ]_vars

\* remove_member has deleted the opinion of a member (not of NULL, whose
\* entry is still stored) and a member left in the set still has its opinion
C14_Witness ==
    /\ call = Ok("remove_member", <<TRUE>>)
    /\ NULL \in DOMAIN ops
    /\ members_with_op(set, ops) # {}

\* C15 -- Membership table invariant: the set always has exactly
\* NUM_NEIGHBOURS entries and no non-NULL key is in two of them.
C15_MembershipTable ==
    /\ Len(set) = NUM_NEIGHBOURS
    /\ \A i \in DOMAIN set : \A j \in DOMAIN set :
          (set[i][1] # NULL /\ set[i][1] = set[j][1]) => i = j

\* add_member has filled the last empty slot, and the first slot holds the
\* last of the callers' keys
C15_Witness ==
    /\ call.op = "add_member" /\ call.status = "ok"
    /\ occupied(set) = NUM_NEIGHBOURS
    /\ set[1][1] = NUM_KEYS

\* C16 as stated -- Opinions belong to members: every key of the stored
\* opinions is the key of a non-NULL member of the set; no opinion is stored
\* under NULL or under a key that has been removed.
C16_AsStated ==
    DOMAIN ops \subseteq member_keys(set)

\* C17 -- filter_peers_ops returns one opinion, of NUM_NEIGHBOURS entries,
\* for each non-NULL member and none for any other key, whichever members
\* have stored an opinion and whatever other keys have one stored.
C17_FilterKeySet ==
    LET filtered_ops == filter_peers_ops(set, ops)
    IN  /\ DOMAIN filtered_ops = member_keys(set)
        /\ \A pk \in member_keys(set) : Len(filtered_ops[pk]) = NUM_NEIGHBOURS

\* the set has an empty slot, a member with a stored opinion and a member
\* without one, and an opinion is stored under a key that is not a member
C17_Witness ==
    /\ free_slots(set) # {}
    /\ members_with_op(set, ops) # {}
    /\ member_keys(set) \ DOMAIN ops # {}
    /\ DOMAIN ops \ member_keys(set) # {}

\* C18 -- Sanitization and normalization are total: whatever opinion of
\* NUM_NEIGHBOURS entries a member has stored, filter_peers_ops gives every
\* member an opinion of NUM_NEIGHBOURS (key, score) entries, the inverse the
\* normalization takes exists or is replaced by zero, the normalized
\* opinions are again (key, score) entries, and when converge panics it is on
\* the quorum check of line 114, in a set of fewer than two members.
C18_Total ==
    /\ LET filtered_ops == filter_peers_ops(set, ops)
       IN  \A pk \in member_keys(set) :
               LET row == filtered_ops[pk]
               IN  /\ row \in [Slots -> Keys \X Fr]
                   /\ Fr_invert_or_zero(score_sum(row)) \in Fr
                   /\ normalize_op(row) \in [Slots -> Keys \X Fr]
    /\ (call.op = "converge" /\ call.status = "panic") =>
          (call.line = 114 /\ valid_peers(set) < 2)
    /\ (call.op = "converge" /\ valid_peers(set) >= 2) => call.status = "ok"

\* converge has returned for a set in which a member has stored an opinion
\* that names a wrong key at every position, with non-zero scores of which
\* two cancel
C18_Witness ==
    /\ call.op = "converge" /\ call.status = "ok"
    /\ \E pk \in members_with_op(set, ops) :
          /\ misaligned(set, ops, pk) = Slots
          /\ \A j \in Slots : ops[pk][j][2] # Fr_zero
          /\ \E i \in Slots : \E j \in Slots \ {i} : Fr_add(ops[pk][i][2], ops[pk][j][2]) = Fr_zero

\* converge has panicked on the quorum check for a single member, whose
\* filtered scores sum to zero
C18_WitnessZeroSum ==
    /\ call = Panic("converge", 114)
    /\ \E pk \in members_with_op(set, ops) :
          score_sum(filter_peers_ops(set, ops)[pk]) = Fr_zero

\* C19 -- Row-stochastic normalization: in a set of at least two members the
\* filtered opinion of every member has a non-zero score sum, which has an
\* inverse, and the normalized opinion sums to 1.
C19_RowStochastic ==
    valid_peers(set) >= 2 =>
        LET filtered_ops == filter_peers_ops(set, ops)
            normalized == normalized_ops(set, ops)
        IN
        \A pk \in member_keys(set) :
            LET row == filtered_ops[pk]
            IN  /\ score_sum(row) # Fr_zero
                /\ Fr_invert(score_sum(row)) \in Fr
                /\ score_sum(normalize_op(row)) = Fr_from_u128(1)
                /\ score_sum(normalized[pk]) = Fr_from_u128(1)

\* converge has returned for a set in which the opinion a member has stored
\* keeps, after the correction pass, non-zero scores that sum to zero
C19_Witness ==
    /\ call.op = "converge" /\ call.status = "ok"
    /\ \E pk \in members_with_op(set, ops) :
          LET corrected == filter_correct(set, ops[pk], pk)
          IN  /\ score_sum(corrected) = Fr_zero
              /\ \E j \in Slots : corrected[j][2] # Fr_zero

\* C20 -- Zero-sum fallback rule: when the scores of a member's opinion sum
\* to zero after the correction pass, the opinion filter_peers_ops returns has
\* score 1 at every position that holds another non-NULL member and score 0
\* at the member's own position and at every NULL position; when they do not
\* sum to zero, it is the corrected opinion.
C20_ZeroSumFallback ==
    LET filtered_ops == filter_peers_ops(set, ops)
    IN
    \A pk \in member_keys(set) :
        LET corrected == filter_correct(set, stored_op(ops, pk), pk)
            returned == filtered_ops[pk]
        IN  /\ score_sum(corrected) = Fr_zero =>
                  \A j \in Slots :
                      returned[j] =
                          <<set[j][1], IF set[j][1] \notin {NULL, pk} THEN Fr_from_u128(1) ELSE Fr_zero>>
            /\ score_sum(corrected) # Fr_zero => returned = corrected

\* converge has returned for a full set in which a member's corrected scores
\* cancel: two of them are not zero, and the returned opinion has 1 in their
\* place
C20_Witness ==
    /\ call.op = "converge" /\ call.status = "ok"
    /\ valid_peers(set) = NUM_NEIGHBOURS
    /\ \E pk \in members_with_op(set, ops) :
          LET corrected == filter_correct(set, ops[pk], pk)
          IN  /\ score_sum(corrected) = Fr_zero
              /\ Cardinality({j \in Slots : corrected[j][2] # Fr_zero}) >= 2
              /\ \A j \in Slots :
                    corrected[j][2] # Fr_zero => filter_peers_ops(set, ops)[pk][j][2] = Fr_from_u128(1)

\* a member's corrected scores do not sum to zero while another member's
\* position has score zero
C20_WitnessNonZero ==
    /\ call.op = "converge" /\ call.status = "ok"
    /\ \E pk \in members_with_op(set, ops) :
          LET corrected == filter_correct(set, ops[pk], pk)
          IN  /\ score_sum(corrected) # Fr_zero
              /\ \E j \in Slots : set[j][1] \notin {NULL, pk} /\ corrected[j][2] = Fr_zero

\* the update of the claim: s'[j] is the sum, over the slots i that hold a
\* member, of normalized_opinion_i[j] * s[i]
power_step(s, f, sv) ==
    vec([j \in Slots |->
        fr_sum(vec([i \in Slots |->
            IF s[i][1] # NULL THEN Fr_mul(f[s[i][1]][j][2], sv[i]) ELSE Fr_zero]))])

\* the values s takes in converge on the current set
score_history == iterate(set, normalized_ops(set, ops), <<vec([i \in Slots |-> set[i][2]])>>, NUM_ITERATIONS)

\* C21 -- Power iteration: when converge returns, the loop has made exactly
\* NUM_ITERATIONS passes, the first from the stored scores, each pass is the
\* update of all slots from the previous s, and the vector returned is the
\* one after the last pass.
C21_PowerIteration ==
    (call.op = "converge" /\ call.status = "ok") =>
        LET f == normalized_ops(set, ops)
            hist == score_history
        IN  /\ Len(hist) = NUM_ITERATIONS + 1
            /\ hist[1] = vec([i \in Slots |-> set[i][2]])
            /\ \A k \in 1..NUM_ITERATIONS : hist[k + 1] = power_step(set, f, hist[k])
            /\ call.ret = hist[NUM_ITERATIONS + 1]

\* converge has returned for a set on which the first pass already leaves s
\* as it was
C21_Witness ==
    /\ call.op = "converge" /\ call.status = "ok"
    /\ score_history[2] = score_history[1]

\* converge has returned for a set on which the last pass still changes s
C21_WitnessMoving ==
    /\ call.op = "converge" /\ call.status = "ok"
    /\ score_history[NUM_ITERATIONS + 1] # score_history[NUM_ITERATIONS]

\* C22 -- converge is pure: whether it returns or panics it leaves the set
\* and the stored opinions as they were, so a converge that follows it starts
\* from the opinions as submitted and has the same outcome.
C22_ConvergePure ==
    [][call'.op = "converge" =>
          /\ converge
          /\ set' = set
          /\ ops' = ops
          /\ converge_call(set', ops') = call'
      ]_vars

\* converge has returned for a set in which the normalized opinion of a
\* member is not the opinion it has stored
C22_Witness ==
    /\ call.op = "converge" /\ call.status = "ok"
    /\ \E pk \in members_with_op(set, ops) : normalized_ops(set, ops)[pk] # ops[pk]

\* converge has panicked for a set in which the filtered opinion of the
\* member is not the opinion it has stored
C22_WitnessPanic ==
    /\ call.op = "converge" /\ call.status = "panic"
    /\ \E pk \in members_with_op(set, ops) : filter_peers_ops(set, ops)[pk] # ops[pk]

\* the positions at which the opinion pk has stored names a key that has left
\* the slot, which now holds another member
reused(s, o, pk) ==
    {j \in Slots : o[pk][j][1] \notin {NULL, s[j][1]} /\ s[j][1] \notin {NULL, pk}}

\* the opinion op with the score at position j replaced by x
with_score(op, j, x) == [op EXCEPT ![j] = <<op[j][1], x>>]

\* C23 -- No rating transfer on slot reuse: where a member's stored opinion
\* still names, at a position, a key that is no longer in that slot, and the
\* slot holds another member, the filtered and the normalized opinion have
\* score zero at that position unless the corrected scores sum to zero (the
\* fallback then gives 1), and in either case the filtered opinion is the
\* same whatever score was submitted at that position.
C23_NoRatingTransfer ==
    LET filtered_ops == filter_peers_ops(set, ops)
        normalized == normalized_ops(set, ops)
        hist == score_history
    IN
    \A pk \in members_with_op(set, ops) : \A j \in reused(set, ops, pk) :
        LET corrected == filter_correct(set, ops[pk], pk)
            filtered == filtered_ops[pk]
        IN  /\ corrected[j] = <<set[j][1], Fr_zero>>
            /\ score_sum(corrected) # Fr_zero =>
                  /\ filtered[j][2] = Fr_zero
                  /\ normalized[pk][j][2] = Fr_zero
                  /\ \A k \in 1..NUM_ITERATIONS :
                        sop(set, normalized, hist[k], position(set, pk), j) = Fr_zero
            /\ \A x \in Fr :
                  filter_op(set, map_insert(ops, pk, with_score(ops[pk], j, x)), pk) = filtered

\* converge has returned for a set in which a member's stored opinion gives a
\* non-zero score to a key that is not a member, at a slot that holds another
\* member, and its corrected scores do not sum to zero
C23_Witness ==
    /\ call.op = "converge" /\ call.status = "ok"
    /\ \E pk \in members_with_op(set, ops) : \E j \in reused(set, ops, pk) :
          /\ ops[pk][j][1] \notin member_keys(set)
          /\ ops[pk][j][2] # Fr_zero
          /\ score_sum(filter_correct(set, ops[pk], pk)) # Fr_zero

\* C24 -- CSVFileStorage round trip: after a save(data), whatever the file
\* held before, load returns exactly data; load does not change the file, so
\* until the next save every load returns the records of the last save.
C24_RoundTrip ==
    [][/\ call'.op = "save" =>
              LET data == call'.ret[2]
              IN  data \in Data /\ save(data) /\ load_call(file') = Ok("load", data)
       /\ call'.op = "load" =>
              (load /\ file' = file /\ load_call(file') = call')
      ]_vars

\* a save has truncated a file that existed and written the header and
\* MaxRecords - 1 records
C24_Witness ==
    /\ call.op = "save" /\ call.ret[1]
    /\ Len(file.rows) = MaxRecords

\* load has returned MaxRecords records with different scores
C24_WitnessLoad ==
    /\ call.op = "load" /\ call.status = "ok"
    /\ Len(call.ret) = MaxRecords
    /\ call.ret[1].score # call.ret[MaxRecords].score

\* C25 -- Stored scores never change: every slot that holds a member stores
\* INITIAL_SCORE and every empty slot stores zero, also after converge has
\* returned other scores, so every converge starts from INITIAL_SCORE in each
\* member's slot.
C25_StoredScores ==
    /\ \A i \in Slots :
          set[i][2] = IF set[i][1] # NULL THEN Fr_from_u128(INITIAL_SCORE) ELSE Fr_zero
    /\ (call.op = "converge" /\ call.status = "ok") =>
          score_history[1] = vec([i \in Slots |->
              IF set[i][1] # NULL THEN Fr_from_u128(INITIAL_SCORE) ELSE Fr_zero])

\* converge has returned, for a member, a score that is not INITIAL_SCORE
C25_Witness ==
    /\ call.op = "converge" /\ call.status = "ok"
    /\ \E i \in Slots : set[i][1] # NULL /\ call.ret[i] # Fr_from_u128(INITIAL_SCORE)

\* C26 -- Two-member degeneracy: in a set of exactly two members, whatever
\* the two have stored, the normalized opinion of each is 1 at the other's
\* slot and 0 elsewhere, so s is the same after every pass, however many
\* there are, and converge returns INITIAL_SCORE for both members (and zero
\* for the empty slots).
C26_TwoMembers ==
    valid_peers(set) = 2 =>
        /\ LET normalized == normalized_ops(set, ops)
           IN  \A pk \in member_keys(set) : \A j \in Slots :
                   normalized[pk][j][2] =
                       IF set[j][1] \notin {NULL, pk} THEN Fr_from_u128(1) ELSE Fr_zero
        /\ LET hist == score_history
           IN  \A k \in 1..(NUM_ITERATIONS + 1) : hist[k] = hist[1]
        /\ call.op = "converge" =>
              /\ call.status = "ok"
              /\ \A i \in Slots :
                    call.ret[i] = IF set[i][1] # NULL THEN Fr_from_u128(INITIAL_SCORE) ELSE Fr_zero

\* converge has returned for two members of which one has stored an opinion
\* that rates itself and rates the other, at its slot, with a score that is
\* neither zero nor 1
C26_Witness ==
    /\ call.op = "converge" /\ call.status = "ok"
    /\ valid_peers(set) = 2
    /\ \E pk \in members_with_op(set, ops) : \E j \in Slots :
          /\ ops[pk][position(set, pk)] = <<pk, Fr_from_u128(1)>>
          /\ set[j][1] \notin {NULL, pk}
          /\ ops[pk][j][1] = set[j][1]
          /\ ops[pk][j][2] \notin {Fr_zero, Fr_from_u128(1)}

\* C27 -- No reputation leaks to empty slots: when converge returns, the
\* score it returns for every empty slot is zero, after every pass, and the
\* scores of the members' slots add up to the scores stored in the set.
C27_NoLeak ==
    (call.op = "converge" /\ valid_peers(set) >= 2) =>
        /\ call.status = "ok"
        /\ \A i \in free_slots(set) : call.ret[i] = Fr_zero
        /\ LET hist == score_history
           IN  \A k \in 1..(NUM_ITERATIONS + 1) : \A i \in free_slots(set) : hist[k][i] = Fr_zero
        /\ fr_sum(vec([i \in Slots |-> IF set[i][1] # NULL THEN call.ret[i] ELSE Fr_zero])) = score_sum(set)

\* converge has returned for a set with an empty slot for which a member has
\* stored, under the NULL key, a non-zero score next to a non-zero score for
\* the other member
C27_Witness ==
    /\ call.op = "converge" /\ call.status = "ok"
    /\ \E i \in free_slots(set) : \E pk \in members_with_op(set, ops) :
          /\ ops[pk][i][1] = NULL
          /\ ops[pk][i][2] # Fr_zero
          /\ score_sum(filter_correct(set, ops[pk], pk)) # Fr_zero

\* C28 -- Failed mutations change nothing: when add_member, remove_member or
\* update_op panics (lines 61, 64, 75, 86), the set and the stored opinions
\* are what they were before the call.
C28_FailedMutations ==
    [][(call'.op \in {"add_member", "remove_member", "update_op"} /\ call'.status = "panic") =>
          /\ set' = set
          /\ ops' = ops
          /\ call'.line \in {61, 64, 75, 86}
          /\ \/ \E pk \in Keys : add_member(pk)
             \/ \E pk \in Keys : remove_member(pk)
             \/ \E from \in Keys : \E op \in Opinions : update_op(from, op)
      ]_vars

\* update_op has panicked for a key that is not a member, in a set that
\* holds members and stored opinions
C28_Witness ==
    /\ call = Panic("update_op", 86)
    /\ members_with_op(set, ops) # {}

\* remove_member has panicked in a set that holds members and stored opinions
C28_WitnessRemove ==
    /\ call = Panic("remove_member", 75)
    /\ members_with_op(set, ops) # {}

\* C29 -- add_member never admits NULL: add_member(NULL) panics, on the
\* duplicate check (line 61) while a slot is empty and on the unwrap
\* (line 64) when none is, and changes nothing; the members the quorum check
\* counts are the keys added and not removed since: a successful add_member
\* adds its non-NULL key, a successful remove_member takes its key away, and
\* no other step changes them.
C29_NullNeverAdmitted ==
    [][/\ add_member(NULL) =>
              /\ call' = Panic("add_member", IF free_slots(set) # {} THEN 61 ELSE 64)
              /\ set' = set /\ ops' = ops
       /\ valid_peers(set') = Cardinality(member_keys(set'))
       /\ IF call'.op = "add_member" /\ call'.status = "ok"
          THEN \E pk \in PublicKeys \ member_keys(set) :
                  add_member(pk) /\ member_keys(set') = member_keys(set) \cup {pk}
          ELSE IF call'.op = "remove_member" /\ call'.status = "ok"
          THEN \E pk \in Keys :
                  remove_member(pk) /\ member_keys(set') = member_keys(set) \ {pk}
          ELSE member_keys(set') = member_keys(set)
      ]_vars

\* add_member has panicked on the duplicate check in a set without members:
\* the key it was given is NULL
C29_Witness ==
    /\ call = Panic("add_member", 61)
    /\ valid_peers(set) = 0

\* the fields of ClientConfig and of UpdateData
ConfigFields == {"as_address", "band_id", "band_th", "band_url", "domain", "node_url"}

\* C30 as stated -- a handle_update that returns Ok has written each supplied
\* value into the field of the same name and has left every field for which
\* no value was supplied as it was; a call that supplies only a valid domain
\* changes config.domain and leaves config.as_address.
C30_AsStated ==
    [][\A data \in UpdateDatas :
          (handle_update(data) /\ call'.status = "ok") =>
              \A f \in ConfigFields :
                  config'[f] = IF data[f] = None THEN config[f] ELSE data[f][1]
      ]_vars

====
